---- MODULE Spec2Model ----
(***************************************************************************)
(* A model of mary, a simulator of the Marie machine: the two-pass         *)
(* assembler (src/assembler.go), the machine and its fetch-decode-execute  *)
(* loop (src/machine.go) and the instruction table (src/maria.go).         *)
(*                                                                         *)
(* Go strings are modelled as sequences of one-character strings, so that  *)
(* tokenize, the token classes and strconv.ParseInt are computed the way   *)
(* the code computes them.  Word is Go's int: the model keeps the values   *)
(* as unbounded integers, as a 64-bit int does for every value a bounded   *)
(* run of the machine can produce.                                         *)
(***************************************************************************)
EXTENDS Integers, Sequences, FiniteSets, TLC

(***************************************************************************)
(* Bounds of the model.                                                    *)
(***************************************************************************)
\* longest program drawn freely from AsmLines
MaxLines == 3
\* number of fetch-decode-execute cycles a run is followed for
MaxSteps == 7
\* number of lines available on standard input
MaxInput == 2

(***************************************************************************)
(* Program constants.                                                      *)
(***************************************************************************)
minWordInt == -32768
maxWordInt == 65535
machineMemory == 4096

(***************************************************************************)
(* Strings.                                                                *)
(***************************************************************************)
DecDigits == <<"0", "1", "2", "3", "4", "5", "6", "7", "8", "9">>
LowerHex == <<"a", "b", "c", "d", "e", "f">>
UpperHex == <<"A", "B", "C", "D", "E", "F">>
LowerRest == <<"g", "h", "i", "j", "k", "l", "m", "n", "o", "p", "q", "r", "s", "t", "u", "v", "w", "x", "y", "z">>
UpperRest == <<"G", "H", "I", "J", "K", "L", "M", "N", "O", "P", "Q", "R", "S", "T", "U", "V", "W", "X", "Y", "Z">>

Range(s) == {s[i] : i \in DOMAIN s}
IndexOf(s, c) == CHOOSE i \in DOMAIN s : s[i] = c

IsDecDigit(c) == c \in Range(DecDigits)
IsHexDigit(c) == c \in Range(DecDigits) \cup Range(LowerHex) \cup Range(UpperHex)
IsLetter(c) == c \in Range(LowerHex) \cup Range(UpperHex) \cup Range(LowerRest) \cup Range(UpperRest)
IsWhite(c) == c \in {" ", "\t", "\n"}

\* strings.Split(s, sep) for a one-character separator, computed by halving s:
\* the last piece of the first half and the first piece of the second half are
\* one piece of s
RECURSIVE Split(_, _)
Split(s, sep) ==
    IF s = <<>> THEN << <<>> >>
    ELSE IF Len(s) = 1 THEN (IF s[1] = sep THEN << <<>>, <<>> >> ELSE <<s>>)
    ELSE LET h == Len(s) \div 2
             a == Split(SubSeq(s, 1, h), sep)
             b == Split(SubSeq(s, h + 1, Len(s)), sep)
         IN  SubSeq(a, 1, Len(a) - 1) \o <<a[Len(a)] \o b[1]>> \o Tail(b)

\* strings.ReplaceAll(s, ",", " , ")
RECURSIVE ReplaceComma(_)
ReplaceComma(s) ==
    IF s = <<>> THEN <<>>
    ELSE IF Head(s) = "," THEN <<" ", ",", " ">> \o ReplaceComma(Tail(s))
    ELSE <<Head(s)>> \o ReplaceComma(Tail(s))

\* regexp `[ \t\n]+` ReplaceAllString(s, " ")
RECURSIVE CollapseWhite(_)
CollapseWhite(s) ==
    IF s = <<>> THEN <<>>
    ELSE IF IsWhite(Head(s))
         THEN IF Len(s) > 1 /\ IsWhite(s[2])
              THEN CollapseWhite(Tail(s))
              ELSE <<" ">> \o CollapseWhite(Tail(s))
    ELSE <<Head(s)>> \o CollapseWhite(Tail(s))

\* strings.Trim(s, " ")
RECURSIVE TrimLeft(_)
TrimLeft(s) == IF s # <<>> /\ Head(s) = " " THEN TrimLeft(Tail(s)) ELSE s
RECURSIVE TrimRight(_)
TrimRight(s) == IF s # <<>> /\ s[Len(s)] = " " THEN TrimRight(SubSeq(s, 1, Len(s) - 1)) ELSE s
Trim(s) == TrimRight(TrimLeft(s))

\* strings.Join(lines, "\n"), computed by halving lines
RECURSIVE Join(_)
Join(lines) ==
    IF lines = <<>> THEN <<>>
    ELSE IF Len(lines) = 1 THEN lines[1]
    ELSE LET h == Len(lines) \div 2
         IN  Join(SubSeq(lines, 1, h)) \o <<"\n">> \o Join(SubSeq(lines, h + 1, Len(lines)))

(***************************************************************************)
(* Opcodes and the mnemonic table.                                         *)
(***************************************************************************)
OpJnS == 0
OpLoad == 1
OpStore == 2
OpAdd == 3
OpSubt == 4
OpInput == 5
OpOutput == 6
OpHalt == 7
OpSkipcond == 8
OpJump == 9
OpClear == 10
OpAddI == 11
OpJumpI == 12
OpLoadI == 13
OpStoreI == 14
OpDump == 15

sJnS == <<"J", "n", "S">>
sLoad == <<"L", "o", "a", "d">>
sStore == <<"S", "t", "o", "r", "e">>
sAdd == <<"A", "d", "d">>
sSubt == <<"S", "u", "b", "t">>
sInput == <<"I", "n", "p", "u", "t">>
sOutput == <<"O", "u", "t", "p", "u", "t">>
sHalt == <<"H", "a", "l", "t">>
sSkipcond == <<"S", "k", "i", "p", "c", "o", "n", "d">>
sJump == <<"J", "u", "m", "p">>
sClear == <<"C", "l", "e", "a", "r">>
sAddI == <<"A", "d", "d", "I">>
sJumpI == <<"J", "u", "m", "p", "I">>
sLoadI == <<"L", "o", "a", "d", "I">>
sStoreI == <<"S", "t", "o", "r", "e", "I">>
sDump == <<"D", "u", "m", "p">>
sDEC == <<"D", "E", "C">>
sHEX == <<"H", "E", "X">>

\* the keys of the opcode map, in the order of their Opcode values
Mnemonics ==
    <<sJnS, sLoad, sStore, sAdd, sSubt, sInput, sOutput, sHalt, sSkipcond,
      sJump, sClear, sAddI, sJumpI, sLoadI, sStoreI, sDump>>

\* opcode[s]; a Go map yields the zero value for a missing key
opcode(s) == IF s \in Range(Mnemonics) THEN IndexOf(Mnemonics, s) - 1 ELSE 0

(***************************************************************************)
(* Token types and tokenize.                                               *)
(***************************************************************************)
TokenInstruction(s) == s \in Range(Mnemonics)

TokenDirective(s) == s \in {sDEC, sHEX}

TokenNumber(s) ==
    LET body == IF s # <<>> /\ Head(s) \in {"-", "+"} THEN Tail(s) ELSE s
    IN  body # <<>> /\ \A i \in DOMAIN body : IsHexDigit(body[i])

TokenIdentifier(s) ==
    /\ s # <<>>
    /\ IsLetter(s[1])
    /\ \A i \in DOMAIN s : IsLetter(s[i]) \/ IsDecDigit(s[i])

TokenComma(s) == s = <<",">>

\* the switch of tokenize: the first token type that matches, "" when none does
TokenTypeOf(s) ==
    IF TokenInstruction(s) THEN "TokenInstruction"
    ELSE IF TokenDirective(s) THEN "TokenDirective"
    ELSE IF TokenNumber(s) THEN "TokenNumber"
    ELSE IF TokenIdentifier(s) THEN "TokenIdentifier"
    ELSE IF TokenComma(s) THEN "TokenComma"
    ELSE ""

RECURSIVE ClassifyAll(_, _)
ClassifyAll(pieces, out) ==
    IF pieces = <<>> THEN [err |-> FALSE, tokens |-> out]
    ELSE IF Head(pieces) = <<>> THEN ClassifyAll(Tail(pieces), out)
    ELSE IF TokenTypeOf(Head(pieces)) = "" THEN [err |-> TRUE, tokens |-> <<>>]
    ELSE ClassifyAll(Tail(pieces),
                     Append(out, [typ |-> TokenTypeOf(Head(pieces)), str |-> Head(pieces)]))

tokenize(line) ==
    LET l1 == Split(line, "/")[1]
        l2 == ReplaceComma(l1)
        l3 == CollapseWhite(l2)
        l4 == Trim(l3)
    IN  ClassifyAll(Split(l4, " "), <<>>)

\* hashTokens: the token types of a token sequence
RECURSIVE hashTokens(_)
hashTokens(tokens) ==
    IF tokens = <<>> THEN <<>> ELSE <<Head(tokens).typ>> \o hashTokens(Tail(tokens))

(***************************************************************************)
(* strconv.ParseInt and parseWord.                                         *)
(***************************************************************************)
DigitValue(c) ==
    IF c \in Range(DecDigits) THEN IndexOf(DecDigits, c) - 1
    ELSE IF c \in Range(LowerHex) THEN IndexOf(LowerHex, c) + 9
    ELSE IF c \in Range(UpperHex) THEN IndexOf(UpperHex, c) + 9
    ELSE IF c \in Range(LowerRest) THEN IndexOf(LowerRest, c) + 15
    ELSE IF c \in Range(UpperRest) THEN IndexOf(UpperRest, c) + 15
    ELSE 36

RECURSIVE StripZeros(_)
StripZeros(d) == IF d # <<>> /\ Head(d) = 0 THEN StripZeros(Tail(d)) ELSE d

\* whether the digit sequence a (no leading zeros) denotes a larger number than b
RECURSIVE LexGreater(_, _)
LexGreater(a, b) ==
    IF a = <<>> THEN FALSE
    ELSE IF Head(a) # Head(b) THEN Head(a) > Head(b)
    ELSE LexGreater(Tail(a), Tail(b))
DigitsGreater(a, b) ==
    IF Len(a) # Len(b) THEN Len(a) > Len(b) ELSE LexGreater(a, b)

\* the digits of 1<<63 - 1, the largest int, in base 10 and in base 16
MaxIntDigits(base) ==
    IF base = 10 THEN <<9, 2, 2, 3, 3, 7, 2, 0, 3, 6, 8, 5, 4, 7, 7, 5, 8, 0, 7>>
    ELSE <<7, 15, 15, 15, 15, 15, 15, 15, 15, 15, 15, 15, 15, 15, 15, 15>>
\* the digits of 1<<63, the magnitude of the smallest int
MinIntDigits(base) ==
    IF base = 10 THEN <<9, 2, 2, 3, 3, 7, 2, 0, 3, 6, 8, 5, 4, 7, 7, 5, 8, 0, 8>>
    ELSE <<8, 0, 0, 0, 0, 0, 0, 0, 0, 0, 0, 0, 0, 0, 0, 0>>

\* the magnitude of a digit sequence; once it is above maxWordInt it is kept
\* above maxWordInt without being accumulated further, which is all that its
\* readers (the range tests of parseWord) tell apart
RECURSIVE Magnitude(_, _, _)
Magnitude(d, base, acc) ==
    IF d = <<>> THEN acc
    ELSE IF acc > maxWordInt THEN acc
    ELSE Magnitude(Tail(d), base, acc * base + Head(d))

\* strconv.ParseInt(num, base, 0) for base 10 or 16 on a 64-bit platform
ParseInt(num, base) ==
    LET neg == num # <<>> /\ Head(num) = "-"
        body == IF num # <<>> /\ Head(num) \in {"-", "+"} THEN Tail(num) ELSE num
        digs == [i \in DOMAIN body |-> DigitValue(body[i])]
        sig == StripZeros(digs)
        mag == Magnitude(sig, base, 0)
    IN  IF body = <<>> \/ \E i \in DOMAIN digs : digs[i] >= base
        THEN [err |-> "ErrSyntax", val |-> 0]
        ELSE IF ~neg /\ DigitsGreater(sig, MaxIntDigits(base))
        THEN [err |-> "ErrRange", val |-> mag]
        ELSE IF neg /\ DigitsGreater(sig, MinIntDigits(base))
        THEN [err |-> "ErrRange", val |-> -mag]
        ELSE [err |-> "nil", val |-> IF neg THEN -mag ELSE mag]

parseWord(num, base) ==
    LET r == ParseInt(num, base)
    IN  IF r.err # "nil" \/ r.val < minWordInt \/ r.val > maxWordInt
        THEN [val |-> 0, err |-> r.err]
        ELSE [val |-> r.val, err |-> "nil"]

(***************************************************************************)
(* Assemble.                                                               *)
(***************************************************************************)
SyntaxError(lineNo, line) == [kind |-> "SyntaxError", lineNo |-> lineNo, line |-> line]
NoError == [kind |-> "nil", lineNo |-> 0, line |-> <<>>]

\* symtab[identifier]; a Go map yields the zero value for a missing key
SymtabGet(symtab, identifier) ==
    IF identifier \in DOMAIN symtab THEN symtab[identifier] ELSE 0

\* symtab[identifier] = addr
SymtabPut(symtab, identifier, addr) ==
    [k \in DOMAIN symtab \cup {identifier} |-> IF k = identifier THEN addr ELSE symtab[k]]

\* whether the token sequence starts with a label, `Identifier ,`
HasLabelPrefix(tokens) ==
    Len(tokens) >= 2 /\ hashTokens(SubSeq(tokens, 1, 2)) = <<"TokenIdentifier", "TokenComma">>

\* the body of the first pass for one line: the address and the symbol table
\* it leaves, or the error it ends the assembly with
FirstPassLine(lineNo, line, addr, symtab) ==
    LET t == tokenize(line)
    IN  IF t.err THEN [err |-> SyntaxError(lineNo, line), addr |-> addr, symtab |-> symtab]
        ELSE IF Len(t.tokens) = 0 THEN [err |-> NoError, addr |-> addr, symtab |-> symtab]
        ELSE IF Len(t.tokens) = 1 THEN [err |-> NoError, addr |-> addr + 1, symtab |-> symtab]
        ELSE IF HasLabelPrefix(t.tokens)
             THEN [err |-> NoError, addr |-> addr + 1,
                   symtab |-> SymtabPut(symtab, t.tokens[1].str, addr)]
        ELSE [err |-> NoError, addr |-> addr + 1, symtab |-> symtab]

\* First pass; fill symtab.  The loop over the lines lo..hi, entered with addr
\* and symtab: its first half, then its second half unless the first returned
RECURSIVE FirstPass(_, _, _, _, _)
FirstPass(lines, lo, hi, addr, symtab) ==
    IF lo > hi THEN [err |-> NoError, addr |-> addr, symtab |-> symtab]
    ELSE IF lo = hi THEN FirstPassLine(lo, lines[lo], addr, symtab)
    ELSE LET mid == (lo + hi) \div 2
             a == FirstPass(lines, lo, mid, addr, symtab)
         IN  IF a.err # NoError THEN a
             ELSE FirstPass(lines, mid + 1, hi, a.addr, a.symtab)

\* the opcodes the second pass accepts without an operand
NoOperandOpcodes == {OpInput, OpOutput, OpHalt, OpClear}
\* the opcodes the second pass accepts with an identifier or a number
OperandOpcodes ==
    {OpJnS, OpLoad, OpStore, OpAdd, OpSubt, OpSkipcond, OpJump, OpAddI,
     OpJumpI, OpLoadI, OpStoreI, OpDump}

\* the body of the second pass for one line: the word the line emits (emit
\* tells whether it emits one) or the error it ends the assembly with
EncodeLine(lineNo, line, symtab) ==
    LET t == tokenize(line)
        tokens == IF HasLabelPrefix(t.tokens)
                  THEN SubSeq(t.tokens, 3, Len(t.tokens)) ELSE t.tokens
        hash == hashTokens(tokens)
        bad == [err |-> SyntaxError(lineNo, line), emit |-> FALSE, word |-> 0]
    IN  IF hash = <<>> THEN [err |-> NoError, emit |-> FALSE, word |-> 0]
        ELSE IF hash = <<"TokenInstruction">>
        THEN IF opcode(tokens[1].str) \in NoOperandOpcodes
             THEN [err |-> NoError, emit |-> TRUE, word |-> opcode(tokens[1].str) * 4096]
             ELSE bad
        ELSE IF hash = <<"TokenInstruction", "TokenIdentifier">>
        THEN IF opcode(tokens[1].str) \in OperandOpcodes
             THEN [err |-> NoError, emit |-> TRUE,
                   word |-> opcode(tokens[1].str) * 4096
                            + (SymtabGet(symtab, tokens[2].str) % 4096)]
             ELSE bad
        ELSE IF hash = <<"TokenInstruction", "TokenNumber">>
        THEN IF opcode(tokens[1].str) \in OperandOpcodes
             THEN LET n == parseWord(tokens[2].str, 16)
                  IN  IF n.err # "nil" THEN bad
                      ELSE [err |-> NoError, emit |-> TRUE,
                            word |-> opcode(tokens[1].str) * 4096 + (n.val % 4096)]
             ELSE bad
        ELSE IF hash = <<"TokenDirective", "TokenNumber">>
        THEN LET base == IF tokens[1].str = sHEX THEN 16 ELSE 10
                 n == parseWord(tokens[2].str, base)
             IN  IF n.err # "nil" THEN bad
                 ELSE [err |-> NoError, emit |-> TRUE, word |-> n.val]
        ELSE bad

\* Second pass; write to out.  The loop over the lines lo..hi: the words it
\* appends to out, or the error it ends the assembly with
RECURSIVE SecondPass(_, _, _, _)
SecondPass(lines, lo, hi, symtab) ==
    IF lo > hi THEN [out |-> <<>>, err |-> NoError]
    ELSE IF lo = hi
    THEN LET e == EncodeLine(lo, lines[lo], symtab)
         IN  [out |-> IF e.emit THEN <<e.word>> ELSE <<>>, err |-> e.err]
    ELSE LET mid == (lo + hi) \div 2
             a == SecondPass(lines, lo, mid, symtab)
         IN  IF a.err # NoError THEN a
             ELSE LET b == SecondPass(lines, mid + 1, hi, symtab)
                  IN  IF b.err # NoError THEN b ELSE [out |-> a.out \o b.out, err |-> NoError]

\* Assemble(src): the words of the program and a nil error, or no words and
\* the syntax error; the lines and the symbol table are kept for the
\* properties to read
Assemble(raw) ==
    LET lines == Split(raw, "\n")
        p1 == FirstPass(lines, 1, Len(lines), 0, <<>>)
    IN  IF p1.err # NoError
        THEN [out |-> <<>>, err |-> p1.err, symtab |-> <<>>, lines |-> lines]
        ELSE LET p2 == SecondPass(lines, 1, Len(lines), p1.symtab)
             IN  [out |-> p2.out, err |-> p2.err, symtab |-> p1.symtab, lines |-> lines]

(***************************************************************************)
(* The machine.                                                            *)
(***************************************************************************)
VARIABLES
    src,     \* the text of the source file
    stdin,   \* the lines standard input still holds
    m,       \* the Machine: AC, PC, MAR, MBR, IR, IN, OUT and M
    status,  \* where main is: "start", "running", or how the process ended
    asm,     \* what the call of Assemble in Machine.Load returned
    err,     \* the error Machine.Load returned
    steps    \* the number of cycles Run has made

vars == <<src, stdin, m, asm, status, err, steps>>

\* The memory M [machineMemory]Word is kept as the function from the addresses
\* of its nonzero cells to their values: a cell outside the domain holds 0.
\* m.M[a] for an address a of the memory
MemGet(M, a) == IF a \in DOMAIN M THEN M[a] ELSE 0
\* m.M[a] = v for an address a of the memory
MemSet(M, a, v) ==
    [b \in (DOMAIN M \cup {a}) \ (IF v = 0 THEN {a} ELSE {}) |-> IF b = a THEN v ELSE M[b]]

\* new(Machine): every register and every memory cell is zero (the register
\* IN is the field IN_, IN being a reserved word)
NewMachine ==
    [AC |-> 0, PC |-> 0, MAR |-> 0, MBR |-> 0, IR |-> 0, IN_ |-> 0, OUT |-> 0,
     M |-> <<>>]

\* whether m.M[a] is an index expression that does not panic
InMemory(a) == a \in 0..(machineMemory - 1)

\* what an Instruction leaves behind: the machine, and how the call ended:
\* "return", "exit0" (os.Exit(0)), "exit1" (os.Exit(1)) or "panic"
Return(mm) == [m |-> mm, end |-> "return"]
Ended(mm, how) == [m |-> mm, end |-> how]

\* m.M[m.MAR] panics when MAR is no index of the memory: Run passes a 12-bit
\* operand, which always is one, but the functions are total on Word
Load(mm, x) ==
    IF ~InMemory(x) THEN Ended([mm EXCEPT !.MAR = x], "panic")
    ELSE Return([mm EXCEPT !.MAR = x, !.MBR = MemGet(mm.M, x), !.AC = MemGet(mm.M, x)])

Store(mm, x) ==
    IF ~InMemory(x) THEN Ended([mm EXCEPT !.MAR = x, !.MBR = mm.AC], "panic")
    ELSE Return([mm EXCEPT !.MAR = x, !.MBR = mm.AC, !.M = MemSet(mm.M, x, mm.AC)])

Add(mm, x) ==
    IF ~InMemory(x) THEN Ended([mm EXCEPT !.MAR = x], "panic")
    ELSE Return([mm EXCEPT !.MAR = x, !.MBR = MemGet(mm.M, x), !.AC = mm.AC + MemGet(mm.M, x)])

\* a Subt that also writes the difference back to the cell it read
SubtInMemory(mm, x) ==
    Return([mm EXCEPT !.MAR = x, !.MBR = MemGet(mm.M, x), !.AC = mm.AC - MemGet(mm.M, x),
                      !.M = MemSet(mm.M, x, mm.AC - MemGet(mm.M, x))])

Subt(mm, x) ==
    IF ~InMemory(x) THEN Ended([mm EXCEPT !.MAR = x], "panic")
    ELSE Return([mm EXCEPT !.MAR = x, !.MBR = MemGet(mm.M, x), !.AC = mm.AC - MemGet(mm.M, x)])

\* the scan loop of Input: the value x holds when the loop ends and the lines
\* left unread; a line parseWord reports an error for is prompted for again
RECURSIVE ScanInput(_, _)
ScanInput(lines, x) ==
    IF lines = <<>> THEN [x |-> x, rest |-> <<>>]
    ELSE LET r == parseWord(Head(lines), 16)
         IN  IF r.err # "nil" THEN ScanInput(Tail(lines), r.val)
             ELSE [x |-> r.val, rest |-> Tail(lines)]

Input(mm, x) ==
    LET s == ScanInput(stdin, 0)
    IN  Return([mm EXCEPT !.IN_ = s.x, !.AC = s.x])

Output(mm, x) ==
    Return([mm EXCEPT !.OUT = mm.AC])

\* a Halt that returns to Run instead of ending the process
HaltReturns(mm, x) == Return(mm)

Halt(mm, x) == Ended(mm, "exit0")

\* Skipcond without its fatal case: the selector 3 skips nothing and returns
SkipcondWithoutFatal(mm, x) ==
    LET sel == (x \div 1024) % 4
    IN  IF sel = 0 THEN Return(IF mm.AC < 0 THEN [mm EXCEPT !.PC = mm.PC + 1] ELSE mm)
        ELSE IF sel = 1 THEN Return(IF mm.AC = 0 THEN [mm EXCEPT !.PC = mm.PC + 1] ELSE mm)
        ELSE IF sel = 2 THEN Return(IF mm.AC > 0 THEN [mm EXCEPT !.PC = mm.PC + 1] ELSE mm)
        ELSE Return(mm)

Skipcond(mm, x) ==
    LET sel == (x \div 1024) % 4
    IN  IF sel = 0 THEN Return(IF mm.AC < 0 THEN [mm EXCEPT !.PC = mm.PC + 1] ELSE mm)
        ELSE IF sel = 1 THEN Return(IF mm.AC = 0 THEN [mm EXCEPT !.PC = mm.PC + 1] ELSE mm)
        ELSE IF sel = 2 THEN Return(IF mm.AC > 0 THEN [mm EXCEPT !.PC = mm.PC + 1] ELSE mm)
        ELSE Ended(mm, "exit1")

Jump(mm, x) ==
    Return([mm EXCEPT !.PC = x])

\* JnS that jumps to the slot of the return address instead of behind it
JnSToSlot(mm, x) ==
    Return([mm EXCEPT !.MAR = x, !.M = MemSet(mm.M, x, mm.PC), !.MBR = x, !.AC = x, !.PC = x])

\* a JnS that sets PC without going through AC
JnSKeepsAC(mm, x) ==
    Return([mm EXCEPT !.MAR = x, !.M = MemSet(mm.M, x, mm.PC), !.MBR = x, !.PC = 1 + x])

JnS(mm, x) ==
    Return([mm EXCEPT !.MAR = x, !.M = MemSet(mm.M, x, mm.PC), !.MBR = x, !.AC = 1 + x, !.PC = 1 + x])

Clear(mm, x) ==
    Return([mm EXCEPT !.AC = 0])

AddI(mm, x) ==
    LET p == MemGet(mm.M, x)
    IN  IF ~InMemory(p) THEN Ended([mm EXCEPT !.MAR = p, !.MBR = p], "panic")
        ELSE Return([mm EXCEPT !.MAR = p, !.MBR = MemGet(mm.M, p), !.AC = mm.AC + MemGet(mm.M, p)])

\* JumpI that keeps only the 12 address bits of the pointer cell
JumpIMasked(mm, x) ==
    Return([mm EXCEPT !.MAR = x, !.MBR = MemGet(mm.M, x), !.PC = MemGet(mm.M, x) % 4096])

JumpI(mm, x) ==
    Return([mm EXCEPT !.MAR = x, !.MBR = MemGet(mm.M, x), !.PC = MemGet(mm.M, x)])

\* a LoadI that loads the pointer itself, without the dereference
LoadIDirect(mm, x) ==
    Return([mm EXCEPT !.MAR = x, !.MBR = MemGet(mm.M, x), !.AC = MemGet(mm.M, x)])

LoadI(mm, x) ==
    LET p == MemGet(mm.M, x)
    IN  IF ~InMemory(p) THEN Ended([mm EXCEPT !.MAR = p, !.MBR = p], "panic")
        ELSE Return([mm EXCEPT !.MAR = p, !.MBR = MemGet(mm.M, p), !.AC = MemGet(mm.M, p)])

StoreI(mm, x) ==
    LET p == MemGet(mm.M, x)
    IN  IF ~InMemory(p) THEN Ended([mm EXCEPT !.MAR = p, !.MBR = mm.AC], "panic")
        ELSE Return([mm EXCEPT !.MAR = p, !.MBR = mm.AC, !.M = MemSet(mm.M, p, mm.AC)])

\* a Dump that leaves AC cleared
DumpClearsAC(mm, x) == Return([mm EXCEPT !.AC = 0])

\* Dump prints the registers and the memory cells below x; every cell it reads
\* is below x, an operand, so no read panics and nothing is written
Dump(mm, x) == Return(mm)

\* the keys of the instruction map
InstructionKeys ==
    {OpJnS, OpLoad, OpStore, OpAdd, OpSubt, OpInput, OpOutput, OpHalt, OpSkipcond,
     OpJump, OpClear, OpAddI, OpJumpI, OpLoadI, OpStoreI, OpDump}

(***************************************************************************)
(* Machine.Load and main up to Run.                                        *)
(***************************************************************************)
\* a copy loop that writes the word i of the program to the cell i + 1
CopyProgramFromOne(mm, program) ==
    [mm EXCEPT !.M = [a \in {i \in 1..Len(program) : program[i] # 0} |-> program[a]] @@ mm.M]

\* for i, w := range program { m.M[i] = w }
CopyProgram(mm, program) ==
    [mm EXCEPT !.M = [a \in {i \in 0..(Len(program) - 1) : program[i + 1] # 0}
                        |-> program[a + 1]] @@ mm.M]

\* a Load that copies what Assemble returned and reports no error, whatever
\* the error of Assemble and the length of the program
MachineLoadDespiteError(mm, a) ==
    [m |-> CopyProgram(mm, a.out), err |-> NoError]

\* Machine.Load after its call of Assemble returned a: the machine it leaves
\* and the error it returns
MachineLoadResult(mm, a) ==
    IF a.err # NoError THEN [m |-> mm, err |-> a.err]
    ELSE IF Len(a.out) >= machineMemory
    THEN [m |-> mm, err |-> [kind |-> "program too long", lineNo |-> 0, line |-> <<>>]]
    ELSE [m |-> CopyProgram(mm, a.out), err |-> NoError]

\* main: m.Load(f), then os.Exit(1) on an error and m.Run() otherwise
MachineLoad ==
    /\ status = "start"
    /\ asm' = Assemble(src)
    /\ m' = MachineLoadResult(m, asm').m
    /\ err' = MachineLoadResult(m, asm').err
    /\ status' = IF err' = NoError THEN "running" ELSE "loadfail"
    /\ UNCHANGED <<src, stdin, steps>>

(***************************************************************************)
(* Machine.Run: one action for each cycle, by the instruction it runs.     *)
(***************************************************************************)
\* MAR = PC; MBR = M[PC]; IR = MBR; PC++
\* a fetch that does not increment PC
FetchWithoutIncrement(mm) ==
    [mm EXCEPT !.MAR = mm.PC, !.MBR = MemGet(mm.M, mm.PC), !.IR = MemGet(mm.M, mm.PC)]

\* a fetch that increments PC before it reads the memory
FetchAfterIncrement(mm) ==
    [mm EXCEPT !.PC = mm.PC + 1, !.MAR = mm.PC + 1, !.MBR = MemGet(mm.M, mm.PC + 1),
               !.IR = MemGet(mm.M, mm.PC + 1)]

Fetch(mm) ==
    [mm EXCEPT !.MAR = mm.PC, !.MBR = MemGet(mm.M, mm.PC), !.IR = MemGet(mm.M, mm.PC), !.PC = mm.PC + 1]

\* opcode := Opcode(m.IR >> 12)
DecodeOpcode(ir) == ir \div 4096
\* operand := m.IR & 0xFFF
DecodeOperand(ir) == ir % 4096

StatusAfter(end) ==
    IF end = "return" THEN "running"
    ELSE IF end = "exit0" THEN "halted"
    ELSE IF end = "exit1" THEN "fatal"
    ELSE "panic"

\* the operand Run passes to the instruction it dispatches to
Operand == DecodeOperand(Fetch(m).IR)

\* one cycle of Run whose fetched word has opcode op, r being what the call
\* instruction[opcode](m, operand) leaves behind
Cycle(op, r) ==
    /\ status = "running"
    /\ steps < MaxSteps
    /\ InMemory(m.PC)
    /\ DecodeOpcode(Fetch(m).IR) = op
    /\ m' = r.m
    /\ status' = StatusAfter(r.end)
    /\ steps' = steps + 1
    /\ UNCHANGED <<src, asm, err>>

RunJnS == Cycle(OpJnS, JnS(Fetch(m), Operand)) /\ UNCHANGED stdin
RunLoad == Cycle(OpLoad, Load(Fetch(m), Operand)) /\ UNCHANGED stdin
RunStore == Cycle(OpStore, Store(Fetch(m), Operand)) /\ UNCHANGED stdin
RunAdd == Cycle(OpAdd, Add(Fetch(m), Operand)) /\ UNCHANGED stdin
RunSubt == Cycle(OpSubt, Subt(Fetch(m), Operand)) /\ UNCHANGED stdin
\* a Scanner made for one Input may have read lines beyond the one it
\* returns; they are lost to the next Input
RunInput ==
    /\ Cycle(OpInput, Input(Fetch(m), Operand))
    /\ \E lost \in 0..Len(ScanInput(stdin, 0).rest) :
          stdin' = SubSeq(ScanInput(stdin, 0).rest, lost + 1, Len(ScanInput(stdin, 0).rest))
RunOutput == Cycle(OpOutput, Output(Fetch(m), Operand)) /\ UNCHANGED stdin
RunHalt == Cycle(OpHalt, Halt(Fetch(m), Operand)) /\ UNCHANGED stdin
RunSkipcond == Cycle(OpSkipcond, Skipcond(Fetch(m), Operand)) /\ UNCHANGED stdin
RunJump == Cycle(OpJump, Jump(Fetch(m), Operand)) /\ UNCHANGED stdin
RunClear == Cycle(OpClear, Clear(Fetch(m), Operand)) /\ UNCHANGED stdin
RunAddI == Cycle(OpAddI, AddI(Fetch(m), Operand)) /\ UNCHANGED stdin
RunJumpI == Cycle(OpJumpI, JumpI(Fetch(m), Operand)) /\ UNCHANGED stdin
RunLoadI == Cycle(OpLoadI, LoadI(Fetch(m), Operand)) /\ UNCHANGED stdin
RunStoreI == Cycle(OpStoreI, StoreI(Fetch(m), Operand)) /\ UNCHANGED stdin
RunDump == Cycle(OpDump, Dump(Fetch(m), Operand)) /\ UNCHANGED stdin

\* a cycle that panics in Run itself: m.M[m.PC] with PC outside the memory, or
\* a call of instruction[opcode] for an opcode the map has no entry for
RunPanic ==
    /\ status = "running"
    /\ steps < MaxSteps
    /\ \/ /\ ~InMemory(m.PC)
          /\ m' = [m EXCEPT !.MAR = m.PC]
       \/ /\ InMemory(m.PC)
          /\ DecodeOpcode(Fetch(m).IR) \notin InstructionKeys
          /\ m' = Fetch(m)
    /\ status' = "panic"
    /\ steps' = steps + 1
    /\ UNCHANGED <<src, stdin, asm, err>>

(***************************************************************************)
(* The source programs and the input lines the runs start from.            *)
(***************************************************************************)
\* `a b`
W(a, b) == a \o <<" ">> \o b
\* `label, statement`
Lab(label, statement) == label \o <<",", " ">> \o statement

idX == <<"X">>
idY == <<"Y">>
idZ == <<"Z">>
idP == <<"P">>
idS == <<"S">>
idQ == <<"Q">>
idR == <<"R">>

\* the lines the free programs are made of: blank, comment, label alone,
\* labelled and unlabelled statements, references to the labels X and Y
AsmLines ==
    { <<>>,
      <<"/", " ", "c">>,
      <<"X", ",">>,
      Lab(idY, sHalt),
      Lab(idX, W(sDEC, <<"1">>)),
      W(sLoad, idX),
      W(sJump, idY),
      sHalt }

RECURSIVE SeqsUpTo(_, _)
SeqsUpTo(S, n) ==
    IF n = 0 THEN {<<>>}
    ELSE LET shorter == SeqsUpTo(S, n - 1)
         IN  shorter \cup {Append(p, l) : p \in {t \in shorter : Len(t) = n - 1}, l \in S}

FreePrograms == SeqsUpTo(AsmLines, MaxLines)

\* number lexemes: in and out of the Word range, in and out of the int range,
\* signed, with hexadecimal digits
NumberLexemes ==
    { <<"0">>, <<"1">>, <<"-", "1">>, <<"+", "5">>, <<"F", "F", "F">>,
      <<"3", "2", "7", "6", "7">>, <<"-", "3", "2", "7", "6", "8">>,
      <<"-", "3", "2", "7", "6", "9">>, <<"6", "5", "5", "3", "5">>,
      <<"6", "5", "5", "3", "6">>, <<"F", "F", "F", "F">>, <<"1", "0", "0", "0", "0">>,
      <<"-", "8", "0", "0", "1">>,
      <<"1", "0", "0", "0", "0", "0", "0", "0", "0", "0", "0", "0", "0", "0", "0", "0", "0">> }

\* one statement, alone or in front of the line that defines X, or behind a label
Statements ==
    Range(Mnemonics)
    \cup {W(mn, idX) : mn \in Range(Mnemonics)}
    \cup {W(mn, n) : mn \in Range(Mnemonics), n \in NumberLexemes}
    \cup {W(d, n) : d \in {sDEC, sHEX}, n \in NumberLexemes}
    \cup { W(sDEC, idX), W(idX, idY), W(sLoad, <<"#">>), W(W(sLoad, idX), idY),
           <<"-">>, idX, <<",">>, W(sHEX, sDEC) }

StatementPrograms ==
    {<<st>> : st \in Statements}
    \cup {<<st, Lab(idX, W(sHEX, <<"0">>))>> : st \in Statements}
    \cup {<<Lab(idY, st)>> : st \in Statements}

\* the literals the data words of the programs below are initialised to
DirLits ==
    { W(sDEC, <<"0">>), W(sDEC, <<"1">>), W(sDEC, <<"-", "1">>),
      W(sDEC, <<"3", "2", "7", "6", "7">>), W(sDEC, <<"-", "3", "2", "7", "6", "8">>),
      W(sHEX, <<"F", "F", "F", "F">>), W(sHEX, <<"8", "0", "0", "0">>),
      W(sHEX, <<"7", "F", "F", "F">>) }

\* Load X / Add Y / Store Z / Halt and its variants with Subt and AddI
ArithProgram(op, la, lb) ==
    <<W(sLoad, idX), op, W(sStore, idZ), sHalt,
      Lab(idX, la), Lab(idY, lb), Lab(idZ, W(sDEC, <<"0">>))>>
    \o (IF op = W(sAddI, idP) THEN <<Lab(idP, W(sHEX, <<"5">>))>> ELSE <<>>)

ArithPrograms ==
    {ArithProgram(op, la, lb) :
        op \in {W(sAdd, idY), W(sSubt, idY), W(sAddI, idP)}, la \in DirLits, lb \in DirLits}

\* the operands Skipcond is given: the four selectors, with and without low bits
SkipOperands ==
    { <<"0", "0", "0">>, <<"4", "0", "0">>, <<"8", "0", "0">>, <<"C", "0", "0">>,
      <<"3", "F", "F">>, <<"7", "F", "F">>, <<"B", "F", "F">>, <<"F", "F", "F">> }

SkipProgram(operand, la) ==
    <<W(sLoad, idX), W(sSkipcond, operand), sClear, sOutput, sHalt, Lab(idX, la)>>

SkipPrograms == {SkipProgram(operand, la) : operand \in SkipOperands, la \in DirLits}

\* jumps and subroutine calls, into and out of the memory, and Dump with the
\* least, the greatest and a symbolic operand
JumpFirstLines ==
    { W(sJnS, idS), W(sJnS, <<"F", "F", "F">>), W(sJnS, <<"0">>), W(sJnS, idQ),
      W(sJump, <<"3">>), W(sJump, idS), W(sJump, <<"F", "F", "F">>),
      W(sJumpI, idS), W(sJumpI, idQ), W(sJumpI, idR), W(sJumpI, <<"4">>),
      W(sDump, <<"0">>), W(sDump, <<"F", "F", "F">>), W(sDump, idQ) }

JumpProgram(first, la) ==
    <<W(sLoad, idQ), first, sHalt, Lab(idS, W(sHEX, <<"0">>)), W(sLoad, idS),
      W(sJumpI, idS), Lab(idQ, la), Lab(idR, W(sHEX, <<"1", "0", "0", "0">>))>>

JumpPrograms == {JumpProgram(first, la) : first \in JumpFirstLines, la \in DirLits}

\* input, output, the indirect instructions and Dump
PointerLits ==
    { W(sHEX, <<"9">>), W(sHEX, <<"0">>), W(sHEX, <<"7">>),
      W(sHEX, <<"1", "0", "0", "0">>), W(sDEC, <<"-", "1">>) }

IOProgram(lp) ==
    <<sInput, W(sStoreI, idP), sClear, W(sLoadI, idP), W(sDump, <<"3">>), sOutput, sHalt,
      Lab(idP, lp)>>

IOPrograms == {IOProgram(lp) : lp \in PointerLits}

\* lines that are no statement: a piece that is no token, an operand behind a
\* mnemonic that takes none, a mnemonic without the operand it takes, a
\* decimal literal with a hexadecimal digit, two identifiers, three tokens
BadLines ==
    { W(sLoad, <<"#">>), W(sHalt, idX), sAdd, W(sDEC, <<"F", "F">>), W(idX, idY),
      W(W(sLoad, idX), idY) }

\* a bad line behind, and between, lines that produce words
ErrorPrograms ==
    {<<W(sLoad, idX), Lab(idX, W(sDEC, <<"1">>)), bad>> : bad \in BadLines}
    \cup {<<W(sLoad, idX), bad, Lab(idX, W(sDEC, <<"1">>))>> : bad \in BadLines}

\* programs of as many words as the memory has, of one less and of one more
LongProgram(n) == Join([i \in 1..n |-> sHalt])

LongPrograms ==
    {LongProgram(n) : n \in {machineMemory - 1, machineMemory, machineMemory + 1}}

InputLines ==
    { <<"5">>, <<"-", "1">>, <<"F", "F", "F", "F">>, <<"z", "z">>, <<>>,
      <<"1", "0", "0", "0", "0">> }

Programs ==
    FreePrograms \cup StatementPrograms \cup ArithPrograms \cup SkipPrograms \cup JumpPrograms
    \cup ErrorPrograms

Init ==
    /\ \/ /\ src \in {Join(p) : p \in Programs} \cup LongPrograms
          /\ stdin = <<>>
       \/ /\ src \in {Join(p) : p \in IOPrograms}
          /\ stdin \in SeqsUpTo(InputLines, MaxInput)
    /\ m = NewMachine
    /\ asm = [out |-> <<>>, err |-> NoError, symtab |-> <<>>, lines |-> <<>>]
    /\ status = "start"
    /\ err = NoError
    /\ steps = 0

Next ==
    \/ MachineLoad
    \/ RunJnS
    \/ RunLoad
    \/ RunStore
    \/ RunAdd
    \/ RunSubt
    \/ RunInput
    \/ RunOutput
    \/ RunHalt
    \/ RunSkipcond
    \/ RunJump
    \/ RunClear
    \/ RunAddI
    \/ RunJumpI
    \/ RunLoadI
    \/ RunStoreI
    \/ RunDump
    \/ RunPanic

Spec == Init /\ [][Next]_vars

(***************************************************************************)
(* What the properties below read off a source text and a state.           *)
(***************************************************************************)
\* the lines of the source text, as Assemble has split it
SrcLines == asm.lines

\* the tokens of a line, and those of its statement (the label prefix dropped)
LineTokens(line) == tokenize(line).tokens
StatementTokens(line) ==
    IF HasLabelPrefix(LineTokens(line))
    THEN SubSeq(LineTokens(line), 3, Len(LineTokens(line))) ELSE LineTokens(line)

\* the lines that define the identifier as a label
DefiningLines(lines, identifier) ==
    {i \in DOMAIN lines : HasLabelPrefix(LineTokens(lines[i]))
                          /\ LineTokens(lines[i])[1].str = identifier}

\* an instruction whose operand is an identifier that no line defines
UnresolvedReference(lines) ==
    \E i \in DOMAIN lines :
        /\ hashTokens(StatementTokens(lines[i])) = <<"TokenInstruction", "TokenIdentifier">>
        /\ DefiningLines(lines, StatementTokens(lines[i])[2].str) = {}

\* the value a number lexeme denotes in a base is outside the Word range
LiteralOutOfRange(num, base) ==
    /\ ParseInt(num, base).err # "ErrSyntax"
    /\ \/ ParseInt(num, base).val < minWordInt
       \/ ParseInt(num, base).val > maxWordInt

\* an instruction operand (base 16) or a directive value outside the Word range
OutOfRangeLiteral(lines) ==
    \E i \in DOMAIN lines :
        LET st == StatementTokens(lines[i])
        IN  \/ /\ hashTokens(st) = <<"TokenInstruction", "TokenNumber">>
               /\ LiteralOutOfRange(st[2].str, 16)
            \/ /\ hashTokens(st) = <<"TokenDirective", "TokenNumber">>
               /\ LiteralOutOfRange(st[2].str, IF st[1].str = sHEX THEN 16 ELSE 10)

\* the number of lines before line i that emit a word in the second pass
WordsBefore(lines, i, symtab) ==
    Cardinality({j \in 1..(i - 1) : EncodeLine(j, lines[j], symtab).emit})

\* a value reduced to 16 bits, read as unsigned and as signed
U16(v) == v % 65536
S16(v) == ((v + 32768) % 65536) - 32768

\* the value of the literal of a directive statement such as `DEC -1`
LitValue(statement) ==
    ParseInt(LineTokens(statement)[2].str,
             IF LineTokens(statement)[1].str = sHEX THEN 16 ELSE 10).val

\* Run is about to fetch a word with opcode op; its operand
Fetching(op) ==
    status = "running" /\ steps < MaxSteps /\ InMemory(m.PC) /\ DecodeOpcode(MemGet(m.M, m.PC)) = op
FetchedOperand == DecodeOperand(MemGet(m.M, m.PC))

\* Machine.Load has returned
Loaded == status # "start"

(***************************************************************************)
(* C1: a program in which an instruction's operand is an identifier that   *)
(* no line defines as a label does not assemble: Assemble returns a        *)
(* SyntaxError and emits no word for it.                                   *)
(***************************************************************************)
C1_UnresolvedSymbolFails ==
    (Loaded /\ UnresolvedReference(SrcLines)) =>
        (asm.err.kind = "SyntaxError" /\ asm.out = <<>>)

(***************************************************************************)
(* C2: a program with a numeric literal (an instruction operand, read in   *)
(* base 16, or the value of a DEC or HEX directive) outside the Word range *)
(* does not assemble: Assemble returns a SyntaxError and emits no word.    *)
(***************************************************************************)
C2_OutOfRangeLiteralFails ==
    (Loaded /\ OutOfRangeLiteral(SrcLines)) =>
        (asm.err.kind = "SyntaxError" /\ asm.out = <<>>)

(***************************************************************************)
(* C3: in a program that assembles, every label defined exactly once is    *)
(* bound to the number of word-emitting lines before the line it labels.   *)
(***************************************************************************)
C3_LabelAddressIsWordIndex ==
    (Loaded /\ asm.err = NoError) =>
        \A i \in DOMAIN SrcLines :
            (/\ HasLabelPrefix(LineTokens(SrcLines[i]))
             /\ DefiningLines(SrcLines, LineTokens(SrcLines[i])[1].str) = {i})
            => SymtabGet(asm.symtab, LineTokens(SrcLines[i])[1].str)
                   = WordsBefore(SrcLines, i, asm.symtab)

(***************************************************************************)
(* C4: Load X / Add Y / Store Z / Halt, with X and Y initialised by        *)
(* directives to a and b, halts with M[Z] and AC equal to a + b reduced to *)
(* 16 bits (read as unsigned or as signed).                                *)
(***************************************************************************)
C4_SumProgram ==
    \A la \in DirLits, lb \in DirLits :
        (src = Join(ArithProgram(W(sAdd, idY), la, lb)) /\ status = "halted") =>
            /\ MemGet(m.M, 6) \in {U16(LitValue(la) + LitValue(lb)), S16(LitValue(la) + LitValue(lb))}
            /\ m.AC = MemGet(m.M, 6)

(***************************************************************************)
(* C5: Add, Subt and AddI leave in AC the sum or difference wrapped to 16  *)
(* bits: a value of the Word range, congruent to the exact result modulo   *)
(* 2^16.                                                                   *)
(***************************************************************************)
C5_ArithmeticWraps ==
    [][(RunAdd \/ RunSubt \/ RunAddI) /\ status' = "running" =>
          /\ m'.AC \in minWordInt..maxWordInt
          /\ U16(m'.AC) = U16(IF RunSubt THEN m.AC - m'.MBR ELSE m.AC + m'.MBR)]_vars

(***************************************************************************)
(* C6 as stated: the program that is `Halt` alone halts after one cycle    *)
(* with PC = 1, IR = 0x7000 and AC, MAR, MBR, IN and OUT all 0.            *)
(***************************************************************************)
C6_HaltOnlyKeepsMBR ==
    (src = sHalt /\ status = "halted") =>
        /\ steps = 1
        /\ m.PC = 1 /\ m.IR = OpHalt * 4096
        /\ m.AC = 0 /\ m.MAR = 0 /\ m.MBR = 0 /\ m.IN_ = 0 /\ m.OUT = 0

(***************************************************************************)
(* C6 as amended: the program that is `Halt` alone runs one cycle and      *)
(* halts with PC = 1, IR = 0x7000, MBR = 0x7000 (the fetch reads the word  *)
(* through MBR) and AC, MAR, IN and OUT all 0; the memory holds the Halt   *)
(* word at address 0 and nothing else.                                     *)
(***************************************************************************)
C6_HaltOnly ==
    (src = sHalt /\ Loaded) =>
        \/ /\ status = "running" /\ steps = 0
           /\ m = [NewMachine EXCEPT !.M = MemSet(<<>>, 0, OpHalt * 4096)]
        \/ /\ status = "halted" /\ steps = 1
           /\ m.PC = 1 /\ m.IR = OpHalt * 4096 /\ m.MBR = OpHalt * 4096
           /\ m.AC = 0 /\ m.MAR = 0 /\ m.IN_ = 0 /\ m.OUT = 0
           /\ m.M = MemSet(<<>>, 0, OpHalt * 4096)

C6_Witness == src = sHalt /\ status = "halted" /\ m.IR = OpHalt * 4096

(***************************************************************************)
(* C7: a cycle that fetches a Skipcond whose operand has the selector 3    *)
(* ends the run in the fatal outcome, with nothing changed but what the    *)
(* fetch changes, and no cycle is ever made from the fatal outcome.        *)
(***************************************************************************)
C7_SkipcondSelector3IsFatal ==
    [][/\ (Fetching(OpSkipcond) /\ (FetchedOperand \div 1024) % 4 = 3) =>
              (status' = "fatal" /\ m' = Fetch(m))
       /\ status # "fatal"]_vars

C7_Witness ==
    /\ status = "fatal"
    /\ DecodeOpcode(m.IR) = OpSkipcond
    /\ (DecodeOperand(m.IR) \div 1024) % 4 = 3

(***************************************************************************)
(* C8: a Skipcond with selector 0, 1 or 2 skips the next instruction (PC   *)
(* advanced by one more) exactly when AC, read as a 16-bit signed value,   *)
(* is negative, zero or positive respectively.                             *)
(***************************************************************************)
C8_SkipcondComparesSigned16 ==
    [][(Fetching(OpSkipcond) /\ (FetchedOperand \div 1024) % 4 # 3) =>
          LET sel == (FetchedOperand \div 1024) % 4
              skip == \/ sel = 0 /\ S16(m.AC) < 0
                      \/ sel = 1 /\ S16(m.AC) = 0
                      \/ sel = 2 /\ S16(m.AC) > 0
          IN  m'.PC = IF skip THEN m.PC + 2 ELSE m.PC + 1]_vars

(***************************************************************************)
(* C9: JnS x fetched from address p stores p + 1 in M[x] and sets PC to    *)
(* x + 1; JumpI x sets PC to the content of M[x], so that it returns to    *)
(* the instruction after the JnS.                                          *)
(***************************************************************************)
C9_JnSStoresReturnAddress ==
    [][/\ Fetching(OpJnS) =>
              /\ MemGet(m'.M, FetchedOperand) = m.PC + 1
              /\ m'.PC = FetchedOperand + 1
              /\ status' = "running"
       /\ Fetching(OpJumpI) => m'.PC = MemGet(m.M, FetchedOperand)]_vars

\* the subroutine at S (address 3) was called from address 1 and has returned
C9_Witness ==
    /\ status = "running"
    /\ m.IR = OpJumpI * 4096 + 3
    /\ MemGet(m.M, 1) = OpJnS * 4096 + 3
    /\ MemGet(m.M, 3) = 2
    /\ m.PC = 2

(***************************************************************************)
(* C10: JumpI p sets PC to the whole content of M[p] and Jump p sets PC to *)
(* p; neither changes AC or a memory cell.                                 *)
(***************************************************************************)
C10_JumpAndJumpI ==
    [][/\ Fetching(OpJumpI) =>
              /\ m'.PC = MemGet(m.M, FetchedOperand)
              /\ m'.AC = m.AC /\ m'.M = m.M
       /\ Fetching(OpJump) =>
              /\ m'.PC = FetchedOperand
              /\ m'.AC = m.AC /\ m'.M = m.M]_vars

\* a JumpI through a cell that holds more than 12 bits has been executed
C10_Witness ==
    /\ status = "running"
    /\ DecodeOpcode(m.IR) = OpJumpI
    /\ MemGet(m.M, DecodeOperand(m.IR)) = m.PC
    /\ m.PC >= machineMemory

(***************************************************************************)
(* C11: Machine.Load returns no error for every assembled program of at    *)
(* most machineMemory words and copies all of its words into the memory;   *)
(* for every longer program it returns the capacity error, no cycle is     *)
(* run and the machine stays as it was; no cell outside the memory is ever *)
(* written.                                                                *)
(***************************************************************************)
C11_LoadCapacity ==
    (Loaded /\ asm.err = NoError) =>
        /\ DOMAIN m.M \subseteq 0..(machineMemory - 1)
        /\ IF Len(asm.out) <= machineMemory
           THEN /\ err = NoError
                /\ steps = 0 =>
                       \A i \in 1..Len(asm.out) : MemGet(m.M, i - 1) = asm.out[i]
           ELSE /\ err.kind = "program too long"
                /\ status = "loadfail" /\ steps = 0 /\ m = NewMachine

\* the first line that emits a word in the second pass, 0 when no line does
FirstCodeLine(lines, symtab) ==
    LET code == {j \in DOMAIN lines : EncodeLine(j, lines[j], symtab).emit}
    IN  IF code = {} THEN 0 ELSE CHOOSE j \in code : \A k \in code : j <= k

(***************************************************************************)
(* C12: when Machine.Load has succeeded and no cycle has run, cell i holds *)
(* the i-th word Assemble emitted for every i below the program's length,  *)
(* every other cell of the memory holds 0, and PC, AC, MAR, MBR, IR, IN    *)
(* and OUT are 0; the first cycle then fetches into IR the word of the     *)
(* first line of the source that produces a word.                          *)
(***************************************************************************)
C12_LoadedMachine ==
    /\ (status = "running" /\ steps = 0) =>
           /\ \A i \in 0..(machineMemory - 1) :
                  MemGet(m.M, i) = IF i < Len(asm.out) THEN asm.out[i + 1] ELSE 0
           /\ DOMAIN m.M \subseteq 0..(machineMemory - 1)
           /\ m.PC = 0 /\ m.AC = 0 /\ m.MAR = 0 /\ m.MBR = 0
           /\ m.IR = 0 /\ m.IN_ = 0 /\ m.OUT = 0
    /\ (steps = 1 /\ asm.out # <<>>) =>
           LET f == FirstCodeLine(SrcLines, asm.symtab)
           IN  m.IR = EncodeLine(f, SrcLines[f], asm.symtab).word

\* the first cycle of a program whose first line produces no word has run
C12_Witness ==
    /\ steps = 1
    /\ Len(asm.out) >= 2
    /\ FirstCodeLine(SrcLines, asm.symtab) > 1
    /\ m.IR = asm.out[1]
    /\ m.IR # 0

\* a line that is lexically invalid (one of its pieces is no token) or
\* syntactically invalid: its statement is none of the five patterns, or its
\* mnemonic is not one the pattern is for, or its decimal literal has a digit
\* that is not decimal
InvalidLine(line) ==
    \/ tokenize(line).err
    \/ LET st == StatementTokens(line)
           h == hashTokens(st)
       IN  \/ h \notin { <<>>, <<"TokenInstruction">>,
                         <<"TokenInstruction", "TokenIdentifier">>,
                         <<"TokenInstruction", "TokenNumber">>,
                         <<"TokenDirective", "TokenNumber">> }
           \/ /\ h = <<"TokenInstruction">>
              /\ st[1].str \notin {sInput, sOutput, sHalt, sClear, sSkipcond}
           \/ /\ h \in { <<"TokenInstruction", "TokenIdentifier">>,
                         <<"TokenInstruction", "TokenNumber">> }
              /\ st[1].str \in {sInput, sOutput, sHalt, sClear}
           \/ /\ h = <<"TokenDirective", "TokenNumber">>
              /\ st[1].str = sDEC
              /\ LET body == IF Head(st[2].str) \in {"-", "+"}
                              THEN Tail(st[2].str) ELSE st[2].str
                 IN  \E i \in DOMAIN body : ~IsDecDigit(body[i])

AcceptableInput(line) ==
    /\ ParseInt(line, 16).err = "nil"
    /\ ParseInt(line, 16).val \in minWordInt..maxWordInt

(***************************************************************************)
(* C14: an Input that finds on standard input a line that parses as a      *)
(* base-16 signed integer within the Word range completes on the first     *)
(* such line, every line before it (malformed or out of range) having been *)
(* prompted for again: IN and AC are the value of that line and the run    *)
(* goes on.                                                                *)
(***************************************************************************)
C14_InputAcceptsOnlyWords ==
    [][(RunInput /\ \E k \in DOMAIN stdin : AcceptableInput(stdin[k])) =>
          \E k \in DOMAIN stdin :
              /\ AcceptableInput(stdin[k])
              /\ \A j \in 1..(k - 1) : ~AcceptableInput(stdin[j])
              /\ m'.IN_ = ParseInt(stdin[k], 16).val
              /\ m'.AC = m'.IN_
              /\ Len(stdin') <= Len(stdin) - k
              /\ status' = "running"]_vars

(***************************************************************************)
(* C15: a cycle that fetches a Halt ends the run in the normal outcome     *)
(* with nothing changed but what the fetch changes, and from that outcome  *)
(* no cycle is ever made: no register and no memory cell changes again,    *)
(* whatever the words behind the Halt are.                                 *)
(***************************************************************************)
C15_HaltIsFinal ==
    [][/\ Fetching(OpHalt) => (status' = "halted" /\ m' = Fetch(m))
       /\ status # "halted"]_vars

\* a Halt in front of a word that is not 0 has been executed
C15_Witness ==
    /\ status = "halted"
    /\ DecodeOpcode(m.IR) = OpHalt
    /\ InMemory(m.PC)
    /\ MemGet(m.M, m.PC) # 0

(***************************************************************************)
(* C16: a cycle that fetches a Dump, whatever its operand, changes nothing *)
(* but what the fetch changes (MAR, MBR, IR and PC): AC, IN, OUT and every *)
(* memory cell stay as they were, and the run goes on at the next address. *)
(***************************************************************************)
C16_DumpChangesNothing ==
    [][Fetching(OpDump) => (m' = Fetch(m) /\ m'.PC = m.PC + 1 /\ status' = "running")]_vars

\* a Dump has been executed with AC not 0
C16_Witness ==
    /\ status = "running"
    /\ DecodeOpcode(m.IR) = OpDump
    /\ m.PC = m.MAR + 1
    /\ m.AC # 0

\* the values the registers and the memory cells of a machine hold
MachineValues(mm) ==
    {mm.AC, mm.PC, mm.MAR, mm.MBR, mm.IR, mm.IN_, mm.OUT}
    \cup {MemGet(mm.M, a) : a \in DOMAIN mm.M \cup {machineMemory - 1}}

(***************************************************************************)
(* C17: from Load on, the values of the registers AC, PC, MAR, MBR, IR, IN *)
(* and OUT and of the memory cells are 16-bit values: any two of them lie  *)
(* less than 65536 apart, as the members of a set of 65536 consecutive     *)
(* integers do, so that the words of `DEC -1` and `HEX FFFF` cannot both   *)
(* occur as different values.                                              *)
(***************************************************************************)
C17_WordsAre16Bit ==
    Loaded => \A v, w \in MachineValues(m) : v - w < 65536

\* the mnemonics that are a statement on their own
BareMnemonics == {sInput, sOutput, sHalt, sClear, sSkipcond}

(***************************************************************************)
(* C18: a line whose statement is a mnemonic alone produces the word       *)
(* opcode<<12 exactly when the mnemonic is Input, Output, Halt, Clear or   *)
(* Skipcond; any other mnemonic alone, and Input, Output, Halt or Clear    *)
(* followed by an identifier or a number, makes the assembly fail, with    *)
(* the SyntaxError of that line when it is the only line with an error:    *)
(* its 1-based number and its text.                                        *)
(***************************************************************************)
C18_BareMnemonics ==
    (Loaded /\ steps = 0) =>
        \A i \in DOMAIN SrcLines :
            LET st == StatementTokens(SrcLines[i])
                h == hashTokens(st)
                e == EncodeLine(i, SrcLines[i], asm.symtab)
                rejected ==
                    /\ e.err = SyntaxError(i, SrcLines[i])
                    /\ asm.err.kind = "SyntaxError"
                    /\ asm.out = <<>>
                    /\ Len(SrcLines) = 1 => asm.err = SyntaxError(i, SrcLines[i])
            IN  /\ (h = <<"TokenInstruction">> /\ st[1].str \in BareMnemonics) =>
                       (e.err = NoError /\ e.emit /\ e.word = opcode(st[1].str) * 4096)
                /\ (h = <<"TokenInstruction">> /\ st[1].str \notin BareMnemonics) => rejected
                /\ (/\ h \in { <<"TokenInstruction", "TokenIdentifier">>,
                                <<"TokenInstruction", "TokenNumber">> }
                    /\ st[1].str \in {sInput, sOutput, sHalt, sClear}) => rejected

\* the opcodes of the instructions that do not write PC
SequentialOpcodes ==
    {OpLoad, OpStore, OpAdd, OpSubt, OpInput, OpOutput, OpClear, OpAddI, OpLoadI,
     OpStoreI, OpDump}

\* whether Skipcond with operand x skips when the accumulator holds ac
SkipTaken(ac, x) ==
    \/ (x \div 1024) % 4 = 0 /\ ac < 0
    \/ (x \div 1024) % 4 = 1 /\ ac = 0
    \/ (x \div 1024) % 4 = 2 /\ ac > 0

(***************************************************************************)
(* C19: a cycle of Run that starts with PC = p fetches, increments, then   *)
(* dispatches: IR becomes M[p]; the handler is the one of the opcode       *)
(* IR >> 12, it gets the operand IR & 0xFFF and sees PC = p + 1 (JnS       *)
(* stores p + 1).  So PC is p + 1 after an instruction that does not write *)
(* PC, and p + 2 after a Skipcond that skips.                              *)
(***************************************************************************)
C19_FetchIncrementDispatch ==
    [][(status = "running" /\ InMemory(m.PC) /\ steps' = steps + 1) =>
          LET p == m.PC
              w == MemGet(m.M, p)
              op == w \div 4096
              x == w % 4096
          IN  /\ m'.IR = w
              /\ (op \in SequentialOpcodes /\ status' = "running") => m'.PC = p + 1
              /\ (op = OpSkipcond /\ status' = "running") =>
                     m'.PC = IF SkipTaken(m.AC, x) THEN p + 2 ELSE p + 1
              /\ op = OpJnS => (MemGet(m'.M, x) = p + 1 /\ m'.PC = x + 1)
              /\ op = OpJump => m'.PC = x
              /\ op \in {OpLoad, OpStore, OpAdd, OpSubt} => m'.MAR = x
              /\ op = OpLoad => m'.AC = MemGet(m.M, x)
              /\ op = OpClear => m'.AC = 0
              /\ op = OpOutput => m'.OUT = m.AC
              /\ op = OpHalt <=> status' = "halted"
              /\ op \notin InstructionKeys => status' = "panic"]_vars

\* Load X / Skipcond / Clear / Output: the Skipcond at address 1 has skipped
\* the Clear, and the next fetch, from address 3, was of the Output
C19_Witness ==
    /\ status = "running"
    /\ steps = 3
    /\ DecodeOpcode(MemGet(m.M, 1)) = OpSkipcond
    /\ DecodeOpcode(MemGet(m.M, 2)) = OpClear
    /\ m.MAR = 3
    /\ m.IR = MemGet(m.M, 3)
    /\ DecodeOpcode(m.IR) = OpOutput
    /\ m.PC = 4
    /\ m.OUT # 0

\* two outcomes of an instruction that agree on AC, PC, the memory and on how
\* the call ended
SameEffect(r, mm, st) ==
    /\ mm.AC = r.m.AC
    /\ mm.PC = r.m.PC
    /\ mm.M = r.m.M
    /\ st = StatusAfter(r.end)

(***************************************************************************)
(* C20: a cycle that fetches AddI x, LoadI x or StoreI x leaves AC, PC and *)
(* the memory as Add, Load or Store called with the content of M[x] before *)
(* the instruction would leave them, and ends as that call would end (both *)
(* panic when M[x] is no address of the memory): one dereference is all    *)
(* the difference.                                                         *)
(***************************************************************************)
C20_IndirectIsOneDereference ==
    [][/\ Fetching(OpAddI) =>
              SameEffect(Add(Fetch(m), MemGet(m.M, FetchedOperand)), m', status')
       /\ Fetching(OpLoadI) =>
              SameEffect(Load(Fetch(m), MemGet(m.M, FetchedOperand)), m', status')
       /\ Fetching(OpStoreI) =>
              SameEffect(Store(Fetch(m), MemGet(m.M, FetchedOperand)), m', status')]_vars

\* a StoreI x has stored an AC that is not 0 to the cell M[x] points to,
\* a cell other than x
C20_Witness ==
    /\ status = "running"
    /\ DecodeOpcode(m.IR) = OpStoreI
    /\ InMemory(MemGet(m.M, DecodeOperand(m.IR)))
    /\ MemGet(m.M, DecodeOperand(m.IR)) # DecodeOperand(m.IR)
    /\ m.MAR = MemGet(m.M, DecodeOperand(m.IR))
    /\ MemGet(m.M, m.MAR) = m.AC
    /\ m.AC # 0

(***************************************************************************)
(* C21: while a loaded program runs, every index of the memory is in       *)
(* 0..4095: the address PC the next cycle fetches from, and, when the word *)
(* at PC is an AddI, a LoadI or a StoreI, the address read from the cell   *)
(* its operand names.                                                      *)
(***************************************************************************)
C21_MemoryIndicesInRange ==
    status = "running" =>
        /\ InMemory(m.PC)
        /\ DecodeOpcode(MemGet(m.M, m.PC)) \in {OpAddI, OpLoadI, OpStoreI} =>
               InMemory(MemGet(m.M, DecodeOperand(MemGet(m.M, m.PC))))

(***************************************************************************)
(* C22: while a loaded program runs, the word at PC, whichever way it came *)
(* into the memory, has an opcode IR >> 12 in 0..15 for which the          *)
(* instruction table has a handler.                                        *)
(***************************************************************************)
C22_DispatchIsTotal ==
    (status = "running" /\ InMemory(m.PC)) =>
        /\ DecodeOpcode(MemGet(m.M, m.PC)) \in 0..15
        /\ DecodeOpcode(MemGet(m.M, m.PC)) \in InstructionKeys

\* the addresses at which two memories differ
ChangedCells(M1, M2) ==
    {a \in DOMAIN M1 \cup DOMAIN M2 : MemGet(M1, a) # MemGet(M2, a)}

(***************************************************************************)
(* C23: a cycle changes at most one memory cell: Store x and JnS x no cell *)
(* but x, StoreI x no cell but the one M[x] points to, and every other     *)
(* instruction no cell at all; Store, StoreI, Jump, JumpI, Skipcond and    *)
(* Output leave AC as it was.                                              *)
(***************************************************************************)
C23_FrameOfInstructions ==
    [][(status = "running" /\ InMemory(m.PC) /\ steps' = steps + 1) =>
          LET op == DecodeOpcode(MemGet(m.M, m.PC))
              x == DecodeOperand(MemGet(m.M, m.PC))
              changed == ChangedCells(m.M, m'.M)
          IN  /\ Cardinality(changed) <= 1
              /\ op \in {OpStore, OpJnS} => changed \subseteq {x}
              /\ op = OpStoreI => changed \subseteq {MemGet(m.M, x)}
              /\ op \notin {OpStore, OpStoreI, OpJnS} => changed = {}
              /\ op \in {OpStore, OpStoreI, OpJump, OpJumpI, OpSkipcond, OpOutput} =>
                     m'.AC = m.AC]_vars

\* a Store has changed the cell its operand names, and no other cell
C23_Witness ==
    /\ status = "running"
    /\ DecodeOpcode(m.IR) = OpStore
    /\ m.AC # 0
    /\ ChangedCells(m.M, CopyProgram(NewMachine, asm.out).M) = {DecodeOperand(m.IR)}
    /\ MemGet(m.M, DecodeOperand(m.IR)) = m.AC

(***************************************************************************)
(* C24: a cycle that fetches JnS x leaves AC = x + 1, the value of the new *)
(* PC, whatever AC held before.                                            *)
(***************************************************************************)
C24_JnSOverwritesAC ==
    [][Fetching(OpJnS) =>
          (m'.AC = FetchedOperand + 1 /\ m'.AC = m'.PC /\ status' = "running")]_vars

\* Load Q / JnS S: the JnS at address 1 has replaced the value of Q in AC
C24_Witness ==
    /\ status = "running"
    /\ steps = 2
    /\ DecodeOpcode(m.IR) = OpJnS
    /\ DecodeOpcode(MemGet(m.M, 0)) = OpLoad
    /\ MemGet(m.M, DecodeOperand(MemGet(m.M, 0))) \notin {0, m.AC}
    /\ DecodeOperand(MemGet(m.M, 0)) # DecodeOperand(m.IR)
    /\ m.AC = DecodeOperand(m.IR) + 1

====
